---------------------------- MODULE Spec2Model ----------------------------
(***************************************************************************)
(* A model of walkabout/support.py: the six public helpers                 *)
(*   outlier_mask, trimean, variance_coefficient, list_to_string,          *)
(*   strip_columns, placehold_to_nan                                       *)
(* and the private _flatten_list, together with the pandas operations the  *)
(* helpers delegate to.                                                    *)
(*                                                                         *)
(* pandas reference.  support.py calls Series.between with a boolean       *)
(* `inclusive` and uses np.NaN, so it runs on pandas 1.x with numpy 1.x.   *)
(* The pandas operations are modelled as that line documents them:         *)
(*   Series.quantile       linear interpolation, missing values skipped    *)
(*   Series.median/var/mean  missing values skipped, var with ddof = 1     *)
(*   Series.between        (>=, <=) when inclusive, (>, <) otherwise       *)
(*   DataFrame.quantile    numeric_only = True                             *)
(*   DataFrame.median/var/mean  numeric_only = None: every column is       *)
(*                         tried, a column whose reduction fails is left   *)
(*                         out                                             *)
(*   Series.str.strip      NaN for an element that is not a string; the    *)
(*                         accessor refuses a column with non-null values  *)
(*                         none of which is a string                       *)
(*   DataFrame.copy, DataFrame.__setitem__, select_dtypes, replace         *)
(*                                                                         *)
(* Numbers.  Column values are integers, so that every quantile is a       *)
(* multiple of 1/4, every IQR bound a multiple of 1/8 and every trimean a  *)
(* multiple of 1/16: the floating-point results are exact, and the model   *)
(* carries them as fractions num/den.                                      *)
(***************************************************************************)
EXTENDS Integers, Sequences, FiniteSets, TLC

VARIABLES
    heap,           \* the pandas objects: object id -> DataFrame / Series
    cur,            \* the id of the object the caller holds
    made,           \* object id -> the function that produced the object
    lst,            \* the caller's nested list
    PLACEHOLDERS,   \* the module-level list of support.py line 8
    call,           \* the call made last: function and arguments
    ret,            \* what that call returned or raised
    lists,          \* the list objects of a stepwise _flatten_list run
    stack,          \* its call stack: one frame per active _flatten_list
    pc              \* its position: "idle", "run", "done", "error"

vars == <<heap, cur, made, lst, PLACEHOLDERS, call, ret, lists, stack, pc>>

---------------------------------------------------------------------------
(* Bounds of the model.                                                    *)

MaxLen == 4          \* longest Series given to the statistics
MaxRows == 2         \* most rows of a DataFrame
MaxNodes == 4        \* most nodes (leaves and containers) of a nested list
RecursionLimit == 2  \* frames of _flatten_list the interpreter allows

---------------------------------------------------------------------------
(* Values: the elements of a column.  k is the Python type.                *)

Num(n) == [k |-> "num", n |-> n, s |-> <<>>]
Str(s) == [k |-> "str", n |-> 0, s |-> s]
NaN == [k |-> "nan", n |-> 0, s |-> <<>>]
Inf == [k |-> "inf", n |-> 0, s |-> <<>>]
Bool(b) == [k |-> "bool", n |-> IF b THEN 1 ELSE 0, s |-> <<>>]

IsNull(v) == v.k = "nan"
IsStr(v) == v.k = "str"

(* Floating-point results, exact: num/den, or nan, or +-inf.               *)
Frac(n, d) == [k |-> "num", num |-> n, den |-> d]
QNaN == [k |-> "nan", num |-> 0, den |-> 1]
QInf == [k |-> "inf", num |-> 0, den |-> 1]
QNegInf == [k |-> "ninf", num |-> 0, den |-> 1]

(* A column; a Series is one column, a DataFrame a sequence of columns.    *)
Column(name, dtype, vals) == [name |-> name, dtype |-> dtype, vals |-> vals]
Series(dtype, vals) == [kind |-> "Series", cols |-> <<Column("", dtype, vals)>>]
DataFrame(cols) == [kind |-> "DataFrame", cols |-> cols]
NoObj == [kind |-> "none", cols |-> <<>>]

SeqsUpTo(S, n) == UNION {[1..m -> S] : m \in 0..n}
Range(f) == {f[i] : i \in DOMAIN f}

---------------------------------------------------------------------------
(* pandas: the reductions of a Series.                                     *)

(* The numbers of a column, missing values skipped (skipna).               *)
RECURSIVE Numbers(_)
Numbers(vals) ==
    IF vals = <<>> THEN <<>>
    ELSE IF Head(vals).k = "num" THEN <<Head(vals).n>> \o Numbers(Tail(vals))
    ELSE Numbers(Tail(vals))

RECURSIVE Insert(_, _)
Insert(x, sorted) ==
    IF sorted = <<>> THEN <<x>>
    ELSE IF x <= Head(sorted) THEN <<x>> \o sorted
    ELSE <<Head(sorted)>> \o Insert(x, Tail(sorted))

RECURSIVE Sort(_)
Sort(xs) == IF xs = <<>> THEN <<>> ELSE Insert(Head(xs), Sort(Tail(xs)))

RECURSIVE Sum(_)
Sum(xs) == IF xs = <<>> THEN 0 ELSE Head(xs) + Sum(Tail(xs))

HasStr(vals) == \E i \in DOMAIN vals : IsStr(vals[i])

(* Series.quantile(q4 / 4): numpy's linear interpolation,                  *)
(* a[i] + (a[i+1] - a[i]) * frac at position q * (n - 1); nan when there   *)
(* is no value.  The result is in quarters.                                *)
SeriesQuantile(vals, q4) ==
    LET a == Sort(Numbers(vals))
        n == Len(a)
        pos4 == q4 * (n - 1)
        i == pos4 \div 4
        frac4 == pos4 % 4
    IN  IF n = 0 THEN QNaN
        ELSE IF frac4 = 0 THEN Frac(4 * a[i + 1], 4)
        ELSE Frac(4 * a[i + 1] + (a[i + 2] - a[i + 1]) * frac4, 4)

(* Series.median(): the middle value, or the mean of the two middle ones.  *)
SeriesMedian(vals) ==
    LET a == Sort(Numbers(vals))
        n == Len(a)
    IN  IF n = 0 THEN QNaN
        ELSE IF n % 2 = 1 THEN Frac(4 * a[(n + 1) \div 2], 4)
        ELSE Frac(2 * (a[n \div 2] + a[n \div 2 + 1]), 4)

(* Series.var(): the sample variance, sum((x - mean)^2) / (n - 1), as      *)
(* (n * sum(x^2) - sum(x)^2) / (n * (n - 1)); nan for fewer than two       *)
(* values.                                                                 *)
SeriesVar(vals) ==
    LET a == Numbers(vals)
        n == Len(a)
        sq == [i \in 1..n |-> a[i] * a[i]]
    IN  IF n < 2 THEN QNaN
        ELSE Frac(n * Sum(sq) - Sum(a) * Sum(a), n * (n - 1))

(* Series.mean(): sum / n; nan for no value.                               *)
SeriesMean(vals) ==
    LET a == Numbers(vals)
        n == Len(a)
    IN  IF n = 0 THEN QNaN
        ELSE Frac(Sum(a), n)

---------------------------------------------------------------------------
(* Floating-point arithmetic on the results (numpy float64, no traps).     *)

(* x / y: nan propagates, x / 0 is +-inf and 0 / 0 is nan.                 *)
QDiv(x, y) ==
    IF x.k = "nan" \/ y.k = "nan" THEN QNaN
    ELSE IF y.k = "inf" THEN (IF x.k = "num" THEN Frac(0, 1) ELSE QNaN)
    ELSE IF y.num = 0 THEN
        (IF x.num = 0 THEN QNaN ELSE IF x.num > 0 THEN QInf ELSE QNegInf)
    ELSE IF y.num > 0 THEN Frac(x.num * y.den, x.den * y.num)
    ELSE Frac(-(x.num * y.den), x.den * (-y.num))

(* A wrong trimean: the median counted once, (q1 + q2 + q3) / 4.           *)
QTrimeanUnweighted(q1, q2, q3) ==
    IF q1.k = "nan" \/ q2.k = "nan" \/ q3.k = "nan" THEN QNaN
    ELSE Frac(q1.num + q2.num + q3.num, 16)

(* (q1 + 2 * q2 + q3) / 4 on quarters: a result in sixteenths.             *)
QTrimean(q1, q2, q3) ==
    IF q1.k = "nan" \/ q2.k = "nan" \/ q3.k = "nan" THEN QNaN
    ELSE Frac(q1.num + 2 * q2.num + q3.num, 16)


QSub(x, y) == Frac(x.num * y.den - y.num * x.den, x.den * y.den)
QAdd(x, y) == Frac(x.num * y.den + y.num * x.den, x.den * y.den)
QScale(x, n, d) == Frac(x.num * n, x.den * d)

(* Comparisons of a number v with a float bound; False against nan.        *)
GE(v, b) == b.k = "num" /\ v * b.den >= b.num
LE(v, b) == b.k = "num" /\ v * b.den <= b.num
GT(v, b) == b.k = "num" /\ v * b.den > b.num
LT(v, b) == b.k = "num" /\ v * b.den < b.num

(* A wrong between: the bounds always excluded, `inclusive` ignored.       *)
BetweenExclusive(vals, left, right, inclusive) ==
    [i \in DOMAIN vals |->
        /\ vals[i].k = "num"
        /\ GT(vals[i].n, left) /\ LT(vals[i].n, right)]

(* Series.between(left, right, inclusive): (self >= left) & (self <=       *)
(* right), strict when inclusive is False; a missing value compares False. *)
Between(vals, left, right, inclusive) ==
    [i \in DOMAIN vals |->
        /\ vals[i].k = "num"
        /\ IF inclusive
           THEN GE(vals[i].n, left) /\ LE(vals[i].n, right)
           ELSE GT(vals[i].n, left) /\ LT(vals[i].n, right)]

(* A reduction of a Series raises TypeError on text.                       *)
ReductionFails(col) == col.dtype = "object" /\ HasStr(col.vals)

---------------------------------------------------------------------------
(* What a call returns or raises.                                          *)

NoRet ==
    [kind |-> "none", obj |-> 0, vals |-> <<>>, q |-> QNaN, map |-> <<>>,
     str |-> <<>>, exc |-> ""]
RetMask(vals) == [NoRet EXCEPT !.kind = "mask", !.vals = vals]
RetScalar(q) == [NoRet EXCEPT !.kind = "scalar", !.q = q]
RetMap(m) == [NoRet EXCEPT !.kind = "map", !.map = m]
RetObj(id) == [NoRet EXCEPT !.kind = "obj", !.obj = id]
RetStr(s) == [NoRet EXCEPT !.kind = "str", !.str = s]
Raise(exc) == [NoRet EXCEPT !.kind = "raise", !.exc = exc]

NoCall ==
    [fn |-> "", arg |-> 0, inclusive |-> TRUE, given |-> FALSE,
     placeholders |-> <<>>, separator |-> <<>>]

---------------------------------------------------------------------------
(* support.py lines 17-35.                                                 *)

IqrLow(q1, q3) == QSub(q1, QScale(QSub(q3, q1), 3, 2))
IqrHigh(q1, q3) == QAdd(q3, QScale(QSub(q3, q1), 3, 2))

outlier_mask(feature, inclusive) ==
    LET col == feature.cols[1]
        q1 == SeriesQuantile(col.vals, 1)
        q3 == SeriesQuantile(col.vals, 3)
        lo == IF q1.k = "num" THEN IqrLow(q1, q3) ELSE QNaN
        hi == IF q1.k = "num" THEN IqrHigh(q1, q3) ELSE QNaN
        inside == Between(col.vals, lo, hi, inclusive)
    IN  IF ReductionFails(col) THEN Raise("TypeError")
        ELSE RetMask([i \in DOMAIN col.vals |-> Bool(~inside[i])])

---------------------------------------------------------------------------
(* pandas: the reductions of a DataFrame, as Series indexed by column.     *)

(* What numeric_only = True would reduce: the number columns only.         *)
ReducesNumbersOnly(col) == col.dtype = "number"

IsNumberDtype(col) == col.dtype = "number"
Reduces(col) == ~ReductionFails(col)

Entry(name, q) == [name |-> name, q |-> q]

(* DataFrame.quantile(q): numeric_only = True, the number columns.         *)
FrameQuantile(df, q4) ==
    LET cols == SelectSeq(df.cols, IsNumberDtype)
    IN  [i \in DOMAIN cols |-> Entry(cols[i].name, SeriesQuantile(cols[i].vals, q4))]

(* DataFrame.median / var / mean: numeric_only = None, every column whose  *)
(* reduction does not fail.                                                *)
FrameReduce(df, Op(_)) ==
    LET cols == SelectSeq(df.cols, Reduces)
    IN  [i \in DOMAIN cols |-> Entry(cols[i].name, Op(cols[i].vals))]

Keys(m) == {m[i].name : i \in DOMAIN m}
Lookup(m, name) ==
    IF name \in Keys(m)
    THEN (CHOOSE e \in Range(m) : e.name = name).q
    ELSE QNaN

(* Arithmetic of two indexed Series aligns them on the union of their      *)
(* labels; a label one side lacks gives nan.                               *)
AlignedNames(df, ms) ==
    LET InSome(col) == \E j \in DOMAIN ms : col.name \in Keys(ms[j])
        cols == SelectSeq(df.cols, InSome)
    IN  [i \in DOMAIN cols |-> cols[i].name]

---------------------------------------------------------------------------
(* support.py lines 38-54.                                                 *)

trimean(feature) ==
    IF feature.kind = "Series" THEN
        LET col == feature.cols[1]
            q1 == SeriesQuantile(col.vals, 1)
            q2 == SeriesMedian(col.vals)
            q3 == SeriesQuantile(col.vals, 3)
        IN  IF ReductionFails(col) THEN Raise("TypeError")
            ELSE RetScalar(QTrimean(q1, q2, q3))
    ELSE
        LET q1 == FrameQuantile(feature, 1)
            q2 == FrameReduce(feature, SeriesMedian)
            q3 == FrameQuantile(feature, 3)
            names == AlignedNames(feature, <<q1, q2, q3>>)
        IN  RetMap([i \in DOMAIN names |->
                Entry(names[i], QTrimean(Lookup(q1, names[i]),
                                         Lookup(q2, names[i]),
                                         Lookup(q3, names[i])))])

(* support.py lines 57-68.                                                 *)
variance_coefficient(feature) ==
    IF feature.kind = "Series" THEN
        LET col == feature.cols[1]
        IN  IF ReductionFails(col) THEN Raise("TypeError")
            ELSE RetScalar(QDiv(SeriesVar(col.vals), SeriesMean(col.vals)))
    ELSE
        LET var == FrameReduce(feature, SeriesVar)
            mean == FrameReduce(feature, SeriesMean)
            names == AlignedNames(feature, <<var, mean>>)
        IN  RetMap([i \in DOMAIN names |->
                Entry(names[i], QDiv(Lookup(var, names[i]),
                                     Lookup(mean, names[i])))])

---------------------------------------------------------------------------
(* Strings are sequences of characters.                                    *)

IsSpace(c) == c \in {" ", "\t", "\n"}

RECURSIVE lstrip(_)
lstrip(s) == IF s # <<>> /\ IsSpace(Head(s)) THEN lstrip(Tail(s)) ELSE s

RECURSIVE rstrip(_)
rstrip(s) ==
    IF s # <<>> /\ IsSpace(s[Len(s)]) THEN rstrip(SubSeq(s, 1, Len(s) - 1)) ELSE s

(* A wrong strip: one whitespace character removed at each end.            *)
strip_one(s) ==
    LET a == IF s # <<>> /\ IsSpace(Head(s)) THEN Tail(s) ELSE s
    IN  IF a # <<>> /\ IsSpace(a[Len(a)]) THEN SubSeq(a, 1, Len(a) - 1) ELSE a

(* str.strip(): leading and trailing whitespace removed.                   *)
strip(s) == rstrip(lstrip(s))

(* The .str accessor refuses a column whose inferred type is not a string  *)
(* type: one with non-null values none of which is a string.               *)
StrAccessorFails(col) ==
    /\ ~HasStr(col.vals)
    /\ \E i \in DOMAIN col.vals : ~IsNull(col.vals[i])

(* Series.str.strip(): strip on a string, NaN on anything else.            *)
StrStrip(col) ==
    [col EXCEPT !.vals = [i \in DOMAIN col.vals |->
        IF IsStr(col.vals[i]) THEN Str(strip(col.vals[i].s)) ELSE NaN]]

---------------------------------------------------------------------------
(* pandas objects live in `heap`; the caller holds one of them.            *)

ObjIds == {1, 2}

(* What line 117 would be without .copy(): the same object.                *)
FrameAlias(h, df) == [heap |-> h, id |-> df]

(* DataFrame.copy(): a new object with the same columns.  The id is one    *)
(* no live object has: the caller holds only `df`.                         *)
FrameCopy(h, df) ==
    LET new == CHOOSE i \in ObjIds : i # df
    IN  [heap |-> [h EXCEPT ![new] = h[df]], id |-> new]

(* df.select_dtypes(exclude='number').columns                              *)
NonNumberColumns(obj) ==
    LET cols == SelectSeq(obj.cols, LAMBDA c : c.dtype # "number")
    IN  [i \in DOMAIN cols |-> cols[i].name]

ColumnOf(obj, name) == CHOOSE c \in Range(obj.cols) : c.name = name

(* df[col] = series: the object df is changed in place.                    *)
SetItem(h, df, name, series) ==
    [h EXCEPT ![df].cols = [i \in DOMAIN h[df].cols |->
        IF h[df].cols[i].name = name THEN series ELSE h[df].cols[i]]]

(* support.py lines 119-120: the loop; an exception of .str leaves it.     *)
RECURSIVE StripLoop(_, _, _)
StripLoop(h, df, names) ==
    IF names = <<>> THEN [heap |-> h, raised |-> FALSE]
    ELSE LET col == ColumnOf(h[df], Head(names))
         IN  IF StrAccessorFails(col) THEN [heap |-> h, raised |-> TRUE]
             ELSE StripLoop(SetItem(h, df, Head(names), StrStrip(col)),
                            df, Tail(names))

(* support.py lines 106-122.                                               *)
strip_columns(h, df) ==
    LET c == FrameCopy(h, df)
        r == StripLoop(c.heap, c.id, NonNumberColumns(c.heap[c.id]))
    IN  [heap |-> r.heap,
         ret |-> IF r.raised THEN Raise("AttributeError") ELSE RetObj(c.id)]

---------------------------------------------------------------------------
(* pandas: replace(to_replace = list, value = scalar).                     *)

(* A number column keeps only the entries it can hold: the numbers.        *)
CanHold(dtype, p) == dtype = "object" \/ p.k \in {"num", "inf"}

(* Python ==: same type and same value.                                    *)
PyEq(v, p) == v.k # "nan" /\ v.k = p.k /\ v.n = p.n /\ v.s = p.s

ReplaceColumn(col, to_replace, value) ==
    LET cands == SelectSeq(to_replace, LAMBDA p : CanHold(col.dtype, p))
    IN  [col EXCEPT !.vals = [i \in DOMAIN col.vals |->
            IF \E j \in DOMAIN cands : PyEq(col.vals[i], cands[j])
            THEN value ELSE col.vals[i]]]

(* replace returns a new object (inplace = False) at a fresh id.           *)
Replace(h, df, to_replace, value) ==
    LET new == CHOOSE i \in ObjIds : i # df
        obj == [h[df] EXCEPT !.cols = [i \in DOMAIN h[df].cols |->
                    ReplaceColumn(h[df].cols[i], to_replace, value)]]
    IN  [heap |-> [h EXCEPT ![new] = obj], id |-> new]

(* A wrong placehold_to_nan: the module's list whatever is passed.         *)
placehold_to_nan_default(h, df, placeholders) ==
    LET r == Replace(h, df, PLACEHOLDERS, NaN)
    IN  [heap |-> r.heap, ret |-> RetObj(r.id)]

(* support.py lines 125-136.                                               *)
placehold_to_nan(h, df, placeholders) ==
    LET r == Replace(h, df, placeholders, NaN)
    IN  [heap |-> r.heap, ret |-> RetObj(r.id)]

---------------------------------------------------------------------------
(* Nested lists: a leaf (int, str) or a container (list, tuple).           *)

IntLeaf(n) == [k |-> "int", n |-> n, s |-> <<>>, items |-> <<>>]
StrLeaf(s) == [k |-> "str", n |-> 0, s |-> s, items |-> <<>>]
List(items) == [k |-> "list", n |-> 0, s |-> <<>>, items |-> items]
Tuple(items) == [k |-> "tuple", n |-> 0, s |-> <<>>, items |-> items]
NoList == [k |-> "none", n |-> 0, s |-> <<>>, items |-> <<>>]

(* A narrower test than line 83's: isinstance(item, list).                 *)
IsListOnly(item) == item.k = "list"

(* isinstance(item, (list, tuple))                                         *)
IsListOrTuple(item) == item.k \in {"list", "tuple"}

(* support.py lines 81-87: the loop over the items of l.                   *)
RECURSIVE FlattenItems(_)
FlattenItems(items) ==
    IF items = <<>> THEN <<>>
    ELSE (IF IsListOrTuple(Head(items))
          THEN FlattenItems(Head(items).items)
          ELSE <<Head(items)>>) \o FlattenItems(Tail(items))

(* support.py lines 71-87.                                                 *)
_flatten_list(l) == FlattenItems(l.items)

Digits == <<"0", "1", "2", "3", "4", "5", "6", "7", "8", "9">>

RECURSIVE NatStr(_)
NatStr(n) ==
    IF n < 10 THEN <<Digits[n + 1]>>
    ELSE NatStr(n \div 10) \o <<Digits[(n % 10) + 1]>>

(* str(item): the decimal digits of an int, a str itself.                  *)
PyStr(item) ==
    IF item.k = "str" THEN item.s
    ELSE IF item.n < 0 THEN <<"-">> \o NatStr(-item.n)
    ELSE NatStr(item.n)

(* separator.join(strs)                                                    *)
RECURSIVE Join(_, _)
Join(separator, strs) ==
    IF strs = <<>> THEN <<>>
    ELSE IF Len(strs) = 1 THEN strs[1]
    ELSE strs[1] \o separator \o Join(separator, Tail(strs))

(* support.py lines 90-103.                                                *)
list_to_string(l, separator) ==
    LET flat == _flatten_list(l)
    IN  RetStr(Join(separator, [i \in DOMAIN flat |-> PyStr(flat[i])]))

---------------------------------------------------------------------------
(* The objects a caller may hold.                                          *)

NumCells == {Num(-1), Num(0), Num(1), NaN}
TextCells ==
    {Str(<<" ", " ", "?", " ">>),
     Str(<<"n", "o", "n", "e">>), Str(<<"N", "O", "N", "E">>),
     NaN, Num(-1)}
TableNums == {Num(-1), Num(0)}

NumericSeries == {Series("number", v) : v \in SeqsUpTo(NumCells, MaxLen)}
ObjectSeries ==
    {Series("object", v) : v \in SeqsUpTo(TextCells \cup {Inf}, MaxRows)}
Tables ==
    UNION {{DataFrame(<<Column("n", "number", a), Column("s", "object", b)>>) :
                a \in [1..m -> TableNums], b \in [1..m -> TextCells]} :
           m \in 1..MaxRows}

Leaves == {IntLeaf(12), StrLeaf(<<"a", "b">>), StrLeaf(<<>>)}

RECURSIVE TreesOfSize(_), ForestsOfSize(_)
(* The nested values of n nodes.                                           *)
TreesOfSize(n) ==
    IF n = 1 THEN Leaves \cup {List(<<>>), Tuple(<<>>)}
    ELSE UNION {{List(f), Tuple(f)} : f \in ForestsOfSize(n - 1)}
(* The non-empty sequences of nested values of m nodes in all.             *)
ForestsOfSize(m) ==
    UNION {{<<t>> \o f : t \in TreesOfSize(j),
                         f \in IF j = m THEN {<<>>} ELSE ForestsOfSize(m - j)} :
           j \in 1..m}

IsContainer(t) == t.k \in {"list", "tuple"}

NestedLists ==
    UNION {{t \in TreesOfSize(n) : IsContainer(t)} : n \in 1..MaxNodes}

Separators == {<<",", " ">>, <<"-">>}

(* support.py lines 8-9.                                                   *)
PlaceholdersAtImport ==
    <<Num(-1), Num(-999), Num(-9999),
      Str(<<"N", "o", "n", "e">>), Str(<<"n", "o", "n", "e">>),
      Str(<<"m", "i", "s", "s", "i", "n", "g">>),
      Str(<<"M", "i", "s", "s", "i", "n", "g">>),
      Str(<<"N", "u", "l", "l">>), Str(<<"n", "u", "l", "l">>),
      Str(<<"?">>), Str(<<"i", "n", "f">>), Inf>>

(* A collection a caller passes instead of the default.                    *)
CallerPlaceholders == {<<Num(0), Str(<<"N", "O", "N", "E">>), Inf>>}

---------------------------------------------------------------------------
(* The calls.  Each public function is one step: support.py has no state   *)
(* between calls other than the objects themselves.  The caller holds a    *)
(* pandas object or a nested list.                                         *)

IdleFlat == /\ lists = <<>> /\ stack = <<>> /\ pc = "idle"

Init ==
    /\ \/ /\ heap \in {[i \in ObjIds |-> IF i = 1 THEN o ELSE NoObj] :
                         o \in NumericSeries \cup ObjectSeries \cup Tables}
          /\ lst = NoList
       \/ /\ heap = [i \in ObjIds |-> NoObj]
          /\ lst \in NestedLists
    /\ cur = 1
    /\ made = [i \in ObjIds |-> IF i = 1 THEN "caller" ELSE ""]
    /\ PLACEHOLDERS = PlaceholdersAtImport
    /\ call = NoCall
    /\ ret = NoRet
    /\ IdleFlat

(* The statistics are given a Series of numbers, a Series of text (which   *)
(* they refuse) or a DataFrame.                                            *)
StatsInput(obj) ==
    \/ obj.kind = "DataFrame"
    \/ obj.kind = "Series" /\ (obj.cols[1].dtype = "number" \/ HasStr(obj.cols[1].vals))

Called(fn) == [NoCall EXCEPT !.fn = fn, !.arg = cur]

Call_outlier_mask ==
    /\ heap[cur].kind = "Series" /\ StatsInput(heap[cur])
    /\ \E inclusive \in BOOLEAN :
        /\ call' = [Called("outlier_mask") EXCEPT !.inclusive = inclusive]
        /\ ret' = outlier_mask(heap[cur], inclusive)
    /\ UNCHANGED <<heap, cur, made, lst, PLACEHOLDERS, lists, stack, pc>>

Call_trimean ==
    /\ StatsInput(heap[cur])
    /\ call' = Called("trimean")
    /\ ret' = trimean(heap[cur])
    /\ UNCHANGED <<heap, cur, made, lst, PLACEHOLDERS, lists, stack, pc>>

Call_variance_coefficient ==
    /\ StatsInput(heap[cur])
    /\ call' = Called("variance_coefficient")
    /\ ret' = variance_coefficient(heap[cur])
    /\ UNCHANGED <<heap, cur, made, lst, PLACEHOLDERS, lists, stack, pc>>

Call_list_to_string ==
    /\ IsContainer(lst)
    /\ \E separator \in Separators :
        /\ call' = [Called("list_to_string") EXCEPT !.arg = 0, !.separator = separator]
        /\ ret' = list_to_string(lst, separator)
    /\ UNCHANGED <<heap, cur, made, lst, PLACEHOLDERS, lists, stack, pc>>

(* The producer of each object after a call that was to give a new one.    *)
Produced(fn, r) ==
    [i \in ObjIds |->
        IF r.kind = "obj" /\ i = r.obj THEN fn
        ELSE IF i = cur THEN made[i]
        ELSE ""]

Call_strip_columns ==
    /\ heap[cur].kind = "DataFrame"
    /\ LET r == strip_columns(heap, cur)
       IN  /\ heap' = r.heap
           /\ ret' = r.ret
           /\ made' = Produced("strip_columns", r.ret)
    /\ call' = Called("strip_columns")
    /\ UNCHANGED <<cur, lst, PLACEHOLDERS, lists, stack, pc>>

(* placeholders = PLACEHOLDERS: the default is the module's list.          *)
Call_placehold_to_nan ==
    /\ heap[cur].kind \in {"DataFrame", "Series"}
    /\ \E given \in BOOLEAN :
       \E passed \in IF given THEN CallerPlaceholders ELSE {<<>>} :
        LET placeholders == IF given THEN passed ELSE PLACEHOLDERS
            r == placehold_to_nan(heap, cur, placeholders)
        IN  /\ heap' = r.heap
            /\ ret' = r.ret
            /\ made' = Produced("placehold_to_nan", r.ret)
            /\ call' = [Called("placehold_to_nan") EXCEPT
                            !.given = given, !.placeholders = passed]
    /\ UNCHANGED <<cur, lst, PLACEHOLDERS, lists, stack, pc>>

(* The caller goes on with the object a call returned: t = f(t).           *)
Adopt ==
    /\ ret.kind = "obj" /\ ret.obj # cur
    /\ cur' = ret.obj
    /\ UNCHANGED <<heap, made, lst, PLACEHOLDERS, call, ret, lists, stack, pc>>

Next ==
    \/ Call_outlier_mask
    \/ Call_trimean
    \/ Call_variance_coefficient
    \/ Call_list_to_string
    \/ Call_strip_columns
    \/ Call_placehold_to_nan
    \/ Adopt

Spec == Init /\ [][Next]_vars

---------------------------------------------------------------------------
(* _flatten_list step by step, on list objects that may contain            *)
(* themselves.  lists[id] is the items of list (or tuple) id; an item is a *)
(* leaf or a reference Ref(id).  Each active call of _flatten_list is a    *)
(* frame [l, i, out]: its argument, the position of its loop, its `out`.   *)
(* The interpreter allows RecursionLimit frames and raises RecursionError  *)
(* at the call that would exceed them.                                     *)

ListIds == {1, 2, 3}
ItemCounts == 0..2
Ref(id) == [k |-> "list", n |-> id, s |-> <<>>, items |-> <<>>]
Items == {IntLeaf(12)} \cup {Ref(id) : id \in ListIds}
ListObjects == [ListIds -> UNION {[1..m -> Items] : m \in ItemCounts}]

Frame(l) == [l |-> l, i |-> 1, out |-> <<>>]

InitFlat ==
    /\ heap = [i \in ObjIds |-> NoObj]
    /\ cur = 1
    /\ made = [i \in ObjIds |-> ""]
    /\ lst = NoList
    /\ PLACEHOLDERS = PlaceholdersAtImport
    /\ call = NoCall
    /\ ret = NoRet
    /\ lists \in ListObjects
    /\ stack = <<>>
    /\ pc = "idle"

(* The call _flatten_list(l) on list 1.                                    *)
Enter ==
    /\ pc = "idle"
    /\ stack' = <<Frame(1)>>
    /\ pc' = "run"
    /\ call' = [NoCall EXCEPT !.fn = "_flatten_list", !.arg = 1]
    /\ UNCHANGED <<heap, cur, made, lst, PLACEHOLDERS, ret, lists>>

(* A wrong recursive call: given l, not item.                              *)
CalleeSelf(top, item) == top.l

(* support.py line 84: the list the recursive call is given.               *)
Callee(top, item) == item.n

(* One iteration of the loop of support.py lines 82-86 in the top frame,   *)
(* or its return (line 87).                                                *)
Step ==
    /\ pc = "run"
    /\ LET d == Len(stack)
           top == stack[d]
           l == lists[top.l]
       IN  IF top.i > Len(l) THEN
               \* return out
               IF d = 1
               THEN /\ pc' = "done"
                    /\ stack' = <<>>
                    /\ ret' = [NoRet EXCEPT !.kind = "list", !.vals = top.out]
               ELSE /\ stack' = [SubSeq(stack, 1, d - 1) EXCEPT
                                    ![d - 1].out = @ \o top.out,
                                    ![d - 1].i = @ + 1]
                    /\ UNCHANGED <<pc, ret>>
           ELSE IF IsListOrTuple(l[top.i]) THEN
               \* out.extend(_flatten_list(item)): the call comes first
               IF d >= RecursionLimit
               THEN /\ pc' = "error"
                    /\ stack' = <<>>
                    /\ ret' = Raise("RecursionError")
               ELSE /\ stack' = Append(stack, Frame(Callee(top, l[top.i])))
                    /\ UNCHANGED <<pc, ret>>
           ELSE
               \* out.append(item)
               /\ stack' = [stack EXCEPT ![d].out = Append(@, l[top.i]),
                                         ![d].i = @ + 1]
               /\ UNCHANGED <<pc, ret>>
    /\ UNCHANGED <<heap, cur, made, lst, PLACEHOLDERS, call, lists>>

NextFlat == Enter \/ Step

(* The interpreter runs a started call on: weak fairness of its steps.     *)
SpecFlat == InitFlat /\ [][NextFlat]_vars /\ WF_vars(NextFlat)

---------------------------------------------------------------------------
(* The claims.  What a claim says of a result is written here from the     *)
(* claim, apart from the functions above: quantiles from order statistics, *)
(* leaves by position.                                                     *)

Arg == heap[call.arg]
ArgCol == Arg.cols[1]

(* The k-th smallest of xs: fewer than k values lie below it, at least k   *)
(* at or below it.                                                         *)
OrderStat(xs, k) ==
    CHOOSE v \in Range(xs) :
        /\ Cardinality({i \in DOMAIN xs : xs[i] < v}) < k
        /\ Cardinality({i \in DOMAIN xs : xs[i] <= v}) >= k

(* Four times the p4/4 quantile of xs (not empty): the linear              *)
(* interpolation between the order statistics around position p * (n - 1). *)
Quartile4(xs, p4) ==
    LET pos4 == p4 * (Len(xs) - 1)
        below == pos4 \div 4 + 1
        w == pos4 % 4
    IN  IF w = 0 THEN 4 * OrderStat(xs, below)
        ELSE (4 - w) * OrderStat(xs, below) + w * OrderStat(xs, below + 1)

(* Eight times lo = q1 - 1.5 * iqr and hi = q3 + 1.5 * iqr.                *)
Lo8(xs) == 2 * Quartile4(xs, 1) - 3 * (Quartile4(xs, 3) - Quartile4(xs, 1))
Hi8(xs) == 2 * Quartile4(xs, 3) + 3 * (Quartile4(xs, 3) - Quartile4(xs, 1))

Flagged(xs, v, inclusive) ==
    IF inclusive THEN 8 * v < Lo8(xs) \/ 8 * v > Hi8(xs)
    ELSE 8 * v <= Lo8(xs) \/ 8 * v >= Hi8(xs)

(* C1: for every numeric column, the empty one included, and both values   *)
(* of inclusive, outlier_mask returns a mask of the column's length in     *)
(* which the entry of a number v is True exactly when v < lo or v > hi     *)
(* (inclusive) or v <= lo or v >= hi (not inclusive), lo and hi from the   *)
(* interpolated quartiles.                                                 *)
C1_OutlierMask ==
    (call.fn = "outlier_mask" /\ ArgCol.dtype = "number") =>
        /\ ret.kind = "mask"
        /\ Len(ret.vals) = Len(ArgCol.vals)
        /\ \A i \in DOMAIN ArgCol.vals :
            ArgCol.vals[i].k = "num" =>
                ret.vals[i] = Bool(Flagged(Numbers(ArgCol.vals),
                                           ArgCol.vals[i].n, call.inclusive))

(* A value exactly on the upper bound of a column with a positive IQR,     *)
(* not flagged because inclusive is True.                                  *)
C1_Witness ==
    /\ call.fn = "outlier_mask" /\ call.inclusive /\ ret.kind = "mask"
    /\ \E i \in DOMAIN ArgCol.vals :
        /\ ArgCol.vals[i].k = "num"
        /\ Lo8(Numbers(ArgCol.vals)) < Hi8(Numbers(ArgCol.vals))
        /\ 8 * ArgCol.vals[i].n = Hi8(Numbers(ArgCol.vals))
        /\ ret.vals[i] = Bool(FALSE)

(* C2: on a column with a missing or non-numeric value, outlier_mask       *)
(* fails with a type error or leaves the entry of that value undefined:    *)
(* never a definite boolean.                                               *)
C2_MissingNeverBoolean ==
    call.fn = "outlier_mask" =>
        \/ ret.kind = "raise" /\ ret.exc = "TypeError"
        \/ \A i \in DOMAIN ArgCol.vals :
            ArgCol.vals[i].k # "num" => ret.vals[i].k # "bool"

(* C3: for every numeric column with a value, trimean returns              *)
(* (q1 + 2 * q2 + q3) / 4 of the interpolated 0.25, 0.5, 0.75 quantiles.   *)
C3_Trimean ==
    (/\ call.fn = "trimean" /\ Arg.kind = "Series"
     /\ ArgCol.dtype = "number" /\ Numbers(ArgCol.vals) # <<>>) =>
        LET xs == Numbers(ArgCol.vals)
        IN  /\ ret.kind = "scalar"
            /\ ret.q.k = "num"
            /\ 16 * ret.q.num
                 = ret.q.den * (Quartile4(xs, 1) + 2 * Quartile4(xs, 2)
                                + Quartile4(xs, 3))

(* A column of four values whose three quartiles differ.                   *)
C3_Witness ==
    /\ call.fn = "trimean" /\ Arg.kind = "Series" /\ ret.kind = "scalar"
    /\ Len(Numbers(ArgCol.vals)) = 4
    /\ Quartile4(Numbers(ArgCol.vals), 1) < Quartile4(Numbers(ArgCol.vals), 2)
    /\ Quartile4(Numbers(ArgCol.vals), 2) + 1 < Quartile4(Numbers(ArgCol.vals), 3)

NumberColumnNames(obj) ==
    {obj.cols[i].name : i \in {j \in DOMAIN obj.cols : obj.cols[j].dtype = "number"}}
TextColumnNames(obj) ==
    {obj.cols[i].name : i \in {j \in DOMAIN obj.cols :
        obj.cols[j].dtype # "number" /\ HasStr(obj.cols[j].vals)}}
AllColumnNames(obj) == {obj.cols[i].name : i \in DOMAIN obj.cols}

IsLeaf(v) == v.k \in {"int", "str"}

RECURSIVE LeafCount(_)
LeafCount(v) ==
    IF IsLeaf(v) THEN 1
    ELSE Sum([i \in DOMAIN v.items |-> LeafCount(v.items[i])])

(* The n-th leaf of container v from the left, 1 <= n <= LeafCount(v).     *)
RECURSIVE NthLeaf(_, _)
NthLeaf(v, n) ==
    LET before(i) == Sum([j \in 1..(i - 1) |-> LeafCount(v.items[j])])
        i == CHOOSE c \in DOMAIN v.items :
                before(c) < n /\ n <= before(c) + LeafCount(v.items[c])
    IN  IF IsLeaf(v.items[i]) THEN v.items[i]
        ELSE NthLeaf(v.items[i], n - before(i))

(* The text of a leaf: a string itself, an integer in decimal.             *)
LeafText(v) ==
    IF v.k = "str" THEN v.s
    ELSE IF v.n = 12 THEN <<"1", "2">>
    ELSE <<>>

(* The leaves' texts in order, the separator before all but the first.     *)
RECURSIVE JoinedLeaves(_, _, _)
JoinedLeaves(v, separator, n) ==
    IF n = 0 THEN <<>>
    ELSE JoinedLeaves(v, separator, n - 1)
            \o (IF n > 1 THEN separator ELSE <<>>)
            \o LeafText(NthLeaf(v, n))

(* C5: list_to_string returns the texts of the leaves, in depth-first      *)
(* left-to-right order, joined by the separator; lists and tuples at any   *)
(* depth are spliced, a string is one leaf, an empty list or tuple gives   *)
(* no element and no separator.                                            *)
C5_ListToString ==
    call.fn = "list_to_string" =>
        /\ ret.kind = "str"
        /\ ret.str = JoinedLeaves(lst, call.separator, LeafCount(lst))

(* A list holding a tuple of one int beside a string leaf.                  *)
C5_Witness ==
    /\ call.fn = "list_to_string" /\ ret.kind = "str"
    /\ lst = List(<<Tuple(<<IntLeaf(12)>>), StrLeaf(<<"a", "b">>)>>)
    /\ ret.str = <<"1", "2">> \o call.separator \o <<"a", "b">>

Result == heap[ret.obj]

(* s without its leading and trailing whitespace: what lies between the    *)
(* first and the last character that is not whitespace.                    *)
Trimmed(s) ==
    LET solid == {i \in DOMAIN s : s[i] \notin {" ", "\t", "\n"}}
    IN  IF solid = {} THEN <<>>
        ELSE SubSeq(s, CHOOSE i \in solid : \A j \in solid : i <= j,
                       CHOOSE i \in solid : \A j \in solid : i >= j)

SameShape(a, b) ==
    /\ a.kind = b.kind
    /\ Len(a.cols) = Len(b.cols)
    /\ \A c \in DOMAIN a.cols :
        /\ a.cols[c].name = b.cols[c].name
        /\ Len(a.cols[c].vals) = Len(b.cols[c].vals)

(* C6: strip_columns does not raise; in every non-numeric column a string  *)
(* is returned trimmed and any other value unchanged; a numeric column is  *)
(* returned unchanged.                                                     *)
C6_StripColumns ==
    call.fn = "strip_columns" =>
        /\ ret.kind = "obj"
        /\ SameShape(Result, Arg)
        /\ \A c \in DOMAIN Arg.cols : \A i \in DOMAIN Arg.cols[c].vals :
            LET v == Arg.cols[c].vals[i]
            IN  Result.cols[c].vals[i] =
                    IF Arg.cols[c].dtype # "number" /\ IsStr(v)
                    THEN Str(Trimmed(v.s)) ELSE v

(* The collection in effect: the default when the caller passes none.      *)
InEffect == IF call.given THEN call.placeholders ELSE PlaceholdersAtImport

(* Equal by value: numbers numerically, strings character by character.    *)
EqualByValue(v, p) ==
    \/ v.k = "num" /\ p.k = "num" /\ v.n = p.n
    \/ v.k = "inf" /\ p.k = "inf"
    \/ v.k = "str" /\ p.k = "str" /\ v.s = p.s

(* C7: placehold_to_nan returns a result of the same shape in which an     *)
(* element is the null marker if it equals by value an entry of the        *)
(* collection in effect, and the input element otherwise; a collection the *)
(* caller passes replaces the default.                                     *)
C7_PlaceholdToNan ==
    call.fn = "placehold_to_nan" =>
        /\ ret.kind = "obj"
        /\ SameShape(Result, Arg)
        /\ \A c \in DOMAIN Arg.cols : \A i \in DOMAIN Arg.cols[c].vals :
            LET v == Arg.cols[c].vals[i]
            IN  Result.cols[c].vals[i] =
                    IF \E j \in DOMAIN InEffect : EqualByValue(v, InEffect[j])
                    THEN NaN ELSE v

(* The default collection on a table: -1 and 'none' become null, 'NONE'    *)
(* stays.                                                                  *)
C7_Witness ==
    /\ call.fn = "placehold_to_nan" /\ ~call.given /\ ret.kind = "obj"
    /\ Arg.kind = "DataFrame"
    /\ Arg.cols[1].vals = <<Num(-1), Num(0)>>
    /\ Arg.cols[2].vals = <<Str(<<"n", "o", "n", "e">>), Str(<<"N", "O", "N", "E">>)>>
    /\ Result.cols[1].vals = <<NaN, Num(0)>>
    /\ Result.cols[2].vals = <<NaN, Str(<<"N", "O", "N", "E">>)>>

(* C8: a call, whether it returns or raises, leaves the object it was      *)
(* given, the caller's list and PLACEHOLDERS as they were, and the object  *)
(* strip_columns or placehold_to_nan returns is not the one it was given.  *)
C8_ArgumentsUnchanged ==
    [][/\ heap'[cur] = heap[cur]
       /\ lst' = lst
       /\ PLACEHOLDERS' = PlaceholdersAtImport
       /\ (call' # call \/ ret' # ret) =>
            (ret'.kind = "obj" => ret'.obj # call'.arg)]_vars

(* strip_columns has returned a table that differs from the one given.     *)
C8_Witness ==
    /\ call.fn = "strip_columns" /\ ret.kind = "obj"
    /\ ret.obj # call.arg
    /\ Result # Arg
    /\ made[call.arg] = "caller"

(* C9: strip_columns of a table strip_columns returned is that table.      *)
C9_StripIdempotent ==
    (/\ call.fn = "strip_columns" /\ ret.kind = "obj"
     /\ made[call.arg] = "strip_columns") =>
        Result.cols = Arg.cols

(* The second strip_columns of a table whose first one trimmed '  ? '.     *)
C9_Witness ==
    /\ call.fn = "strip_columns" /\ ret.kind = "obj"
    /\ made[call.arg] = "strip_columns"
    /\ \E i \in DOMAIN Arg.cols[2].vals : Arg.cols[2].vals[i] = Str(<<"?">>)

---------------------------------------------------------------------------
(* The shape of the list objects.                                          *)

Children(n) == {lists[n][i].n : i \in {j \in DOMAIN lists[n] : lists[n][j].k = "list"}}

RECURSIVE Closure(_, _)
Closure(S, k) ==
    IF k = 0 THEN S ELSE Closure(S \cup UNION {Children(m) : m \in S}, k - 1)

(* The lists inside list n, at any depth.                                  *)
Inside(n) == Closure(Children(n), Cardinality(ListIds))

(* List 1 contains itself, or a list inside it does.                       *)
Cyclic == \E n \in {1} \cup Inside(1) : n \in Inside(n)

Max(S) == CHOOSE x \in S : \A y \in S : y <= x

(* Lists nested from n down, n counted; for a structure without cycle.     *)
RECURSIVE Nesting(_, _)
Nesting(n, fuel) ==
    IF fuel = 0 THEN 0
    ELSE 1 + Max({0} \cup {Nesting(m, fuel - 1) : m \in Children(n)})

NestingDepth == Nesting(1, Cardinality(ListIds))

(* C10, in the specification's words: the flattening ends, with a result   *)
(* on every structure without cycle and in a stack error on a cyclic one.  *)
C10_ResultUnlessCyclic ==
    /\ pc = "done" => ~Cyclic
    /\ pc = "error" => Cyclic

(* C10, as the interpreter decides it: it ends; with a result when the     *)
(* structure has no cycle and nests no deeper than the recursion limit     *)
(* allows, in a RecursionError when it is cyclic or nests deeper.          *)
C10_EndsResultOrRecursionError ==
    /\ [](pc = "done" => ~Cyclic /\ NestingDepth <= RecursionLimit)
    /\ [](pc = "error" => ret.exc = "RecursionError"
                          /\ (Cyclic \/ NestingDepth > RecursionLimit))
    /\ <>(pc \in {"done", "error"})

(* A list that contains itself through another list has ended in the       *)
(* stack error.                                                            *)
C10_Witness ==
    /\ pc = "error"
    /\ Ref(2) \in Range(lists[1]) /\ Ref(1) \in Range(lists[2])
    /\ Ref(1) \notin Range(lists[1])

=============================================================================
